---- MODULE Spec2Model ----
EXTENDS Naturals, Sequences, FiniteSets, Bags, TLC

(***************************************************************************)
(* Model of package authz (authz.go): a fasthttp middleware that asks a    *)
(* Casbin enforcer whether (subject, object, action) is permitted and then *)
(* forwards the request, rejects it, or fails closed.                      *)
(*                                                                         *)
(* Functions held in struct fields (getters, handlers) are represented by  *)
(* identifiers; CallGetSubject, CallGetObject, CallGetAction and           *)
(* HandlerOps give what calling the identified function does.  Requests in *)
(* flight are a bag of request contexts, one per goroutine running the     *)
(* handler, each with the handler's locals and a log of the calls made and *)
(* of who wrote to the response.  The Casbin enforcer and the              *)
(* fasthttp response are external to the package: the enforcer is a        *)
(* policy (a set of granted triples and a set of triples whose evaluation  *)
(* fails) that its owner may replace between any two queries, and a        *)
(* response is its status code, content type and body.                     *)
(***************************************************************************)

VARIABLES phase, a, supplied, next, inflight

vars == <<phase, a, supplied, next, inflight>>

----------------------------------------------------------------------------
(* Bounds *)

\* number of requests the server handles concurrently (one goroutine each)
NumRequests == 2

----------------------------------------------------------------------------
(* Program constants *)

StatusOK == 200
StatusForbidden == 403
StatusTeapot == 418
StatusInternalServerError == 500

TextPlain == "text/plain; charset=utf-8"

Unset == "<unset>"
None == "<none>"

----------------------------------------------------------------------------
(* Inputs: request attributes, functions a caller can supply, policies *)

XUsers == {"", "alice"}
Paths == {"/", "/data1"}
Methods == {"GET", "POST"}

\* a fresh fasthttp.RequestCtx carrying a request: X-User header ("" when the
\* header is absent or empty: Header.Peek yields no bytes in both cases),
\* path, method, and the untouched response
FreshResponse == [status |-> StatusOK, ctype |-> TextPlain, body |-> ""]

\* getters: the default closure of NewAuthorizer, or a caller-supplied one
\* that returns a fixed string whatever the request is
Getters == {"default", "fixed"}

\* forbidden handlers: the default closure of NewAuthorizer, the custom
\* handler of TestMiddleware_CustomForbiddenHandler, and a custom handler
\* that writes a server error of its own
ForbiddenHandlers == {"default", "teapot", "servererror"}

\* the handler a caller wraps with Middleware: the one of example/main.go,
\* whose response depends on the request's path, method and X-User header
NextHandlers == {"example"}

Slots == {"getSubject", "getObject", "getAction", "forbiddenHandler"}

Values(slot) == IF slot = "forbiddenHandler" THEN ForbiddenHandlers \ {"default"}
                ELSE Getters \ {"default"}

Policies == {"csv", "faulty"}

----------------------------------------------------------------------------
(* fasthttp response operations and the handlers built from them *)

SetStatusCode(code) == [op |-> "SetStatusCode", code |-> code]
SetContentType(ctype) == [op |-> "SetContentType", ctype |-> ctype]
WriteString(s) == [op |-> "WriteString", s |-> s]

Do(o, resp) ==
    CASE o.op = "SetStatusCode" -> [resp EXCEPT !.status = o.code]
      [] o.op = "SetContentType" -> [resp EXCEPT !.ctype = o.ctype]
      [] o.op = "WriteString" -> [resp EXCEPT !.body = resp.body \o o.s]

RECURSIVE Apply(_, _)
Apply(ops, resp) ==
    IF ops = <<>> THEN resp ELSE Apply(Tail(ops), Do(Head(ops), resp))

DefaultForbiddenHandler ==
    <<SetStatusCode(StatusForbidden), SetContentType(TextPlain), WriteString("Forbidden")>>

TeapotHandler == <<SetStatusCode(StatusTeapot), WriteString("nope")>>

ServerErrorHandler ==
    <<SetStatusCode(StatusInternalServerError), SetContentType(TextPlain),
      WriteString("Authorization error")>>

ExampleHandler(ctx) ==
    LET user == IF ctx.xUser = "" THEN "anonymous" ELSE ctx.xUser
    IN CASE ctx.path = "/" -> <<WriteString("Welcome to the home page! User: " \o user)>>
         [] ctx.path = "/data1" -> <<WriteString("Data1 page - User: " \o user)>>
         [] ctx.path = "/data2" ->
              <<WriteString("Data2 page - User: " \o user \o ", Method: " \o ctx.method)>>
         [] ctx.path = "/api/users" -> <<WriteString("Users API - User: " \o user)>>
         [] OTHER -> <<SetStatusCode(404), WriteString("Page not found: " \o ctx.path)>>

\* the fixed response of the engine-error branch
ErrorResponse ==
    <<SetStatusCode(StatusInternalServerError), SetContentType(TextPlain),
      WriteString("Authorization error")>>

\* the response operations the function identified by h performs on ctx
HandlerOps(h, ctx) ==
    CASE h = "default" -> DefaultForbiddenHandler
      [] h = "teapot" -> TeapotHandler
      [] h = "servererror" -> ServerErrorHandler
      [] h = "example" -> ExampleHandler(ctx)

\* ctx after `by` has performed ops on its response
Perform(by, ops, ctx) ==
    [ctx EXCEPT !.resp = Apply(ops, @),
                !.wrote = @ \o [i \in 1..Len(ops) |-> by]]

----------------------------------------------------------------------------
(* Getters *)

\* variant: the header value is used as it is, without the fallback
DefaultGetSubjectNoFallback(ctx) == ctx.xUser

DefaultGetSubject(ctx) == IF ctx.xUser = "" THEN "anonymous" ELSE ctx.xUser

DefaultGetObject(ctx) == ctx.path

DefaultGetAction(ctx) == ctx.method

FixedSubject == "alice"
FixedObject == "/data1"
FixedAction == "GET"

\* variant: the default getter reads the header from a buffer that the
\* requests in flight share, so it may see the header of another request
\* (here: of one without X-User, if there is one)
CallGetSubjectShared(g, ctx) ==
    IF g = "default"
    THEN DefaultGetSubject(CHOOSE y \in BagToSet(inflight) :
                              \A z \in BagToSet(inflight) : y.xUser = "" \/ z.xUser # "")
    ELSE FixedSubject

CallGetSubject(g, ctx) == IF g = "default" THEN DefaultGetSubject(ctx) ELSE FixedSubject

CallGetObject(g, ctx) == IF g = "default" THEN DefaultGetObject(ctx) ELSE FixedObject

CallGetAction(g, ctx) == IF g = "default" THEN DefaultGetAction(ctx) ELSE FixedAction

----------------------------------------------------------------------------
(* The enforcer *)

CsvGrants == {<<"alice", "/", "GET">>, <<"alice", "/data1", "GET">>,
              <<"bob", "/data2", "POST">>}

Grants(p) == IF p = "csv" THEN CsvGrants
             ELSE CsvGrants \cup {<<"anonymous", "/", "GET">>}

\* triples whose evaluation fails: under the faulty policy, every request for
\* /data1 (whether or not a rule grants it)
Faulty(p) == IF p = "csv" THEN {}
             ELSE {<<s, "/data1", m>> : s \in {"anonymous", "alice"}, m \in Methods}

Enforce(p, subject, object, action) ==
    [ok |-> <<subject, object, action>> \in Grants(p),
     err |-> <<subject, object, action>> \in Faulty(p)]

----------------------------------------------------------------------------
(* Construction *)

DefaultAuthorizer ==
    [getSubject |-> "default", getObject |-> "default", getAction |-> "default",
     forbiddenHandler |-> "default"]

WithSubjectGetter(getter, au) == [au EXCEPT !.getSubject = getter]

\* variant: the option stores the getter in the subject slot
WithObjectGetterWrongSlot(getter, au) == [au EXCEPT !.getSubject = getter]

WithObjectGetter(getter, au) == [au EXCEPT !.getObject = getter]

WithActionGetter(getter, au) == [au EXCEPT !.getAction = getter]

WithForbiddenHandler(handler, au) == [au EXCEPT !.forbiddenHandler = handler]

Option(slot, v, au) ==
    CASE slot = "getSubject" -> WithSubjectGetter(v, au)
      [] slot = "getObject" -> WithObjectGetter(v, au)
      [] slot = "getAction" -> WithActionGetter(v, au)
      [] slot = "forbiddenHandler" -> WithForbiddenHandler(v, au)

Init ==
    /\ phase = "constructing"
    /\ a = DefaultAuthorizer
    /\ supplied = [s \in Slots |-> None]
    /\ next = Unset
    /\ inflight = EmptyBag

\* NewAuthorizer: one iteration of "for _, opt := range opts { opt(a) }";
\* supplied remembers the last value given for each slot
ApplyOption ==
    /\ phase = "constructing"
    /\ \E slot \in Slots : \E v \in Values(slot) :
          /\ a' = Option(slot, v, a)
          /\ supplied' = [supplied EXCEPT ![slot] = v]
    /\ UNCHANGED <<phase, next, inflight>>

\* NewAuthorizer: "return a"
NewAuthorizerReturn ==
    /\ phase = "constructing"
    /\ phase' = "constructed"
    /\ UNCHANGED <<a, supplied, next, inflight>>

\* a.Middleware(next): the returned handler is handed to the server
Middleware ==
    /\ phase = "constructed"
    /\ \E n \in NextHandlers : next' = n
    /\ phase' = "serving"
    /\ UNCHANGED <<a, supplied, inflight>>

----------------------------------------------------------------------------
(* The handler returned by Middleware, one goroutine per request *)

NewRequestCtx(u, p, m) ==
    [pc |-> "getSubject", xUser |-> u, path |-> p, method |-> m,
     subject |-> Unset, object |-> Unset, action |-> Unset,
     ok |-> FALSE, err |-> FALSE, policyAtQuery |-> Unset,
     resp |-> FreshResponse, wrote |-> <<>>, calls |-> <<>>]

InFlight == BagToSet(inflight)

Replace(x, y) == (inflight (-) SetToBag({x})) (+) SetToBag({y})

Called(name, fn, x) == [x EXCEPT !.calls = Append(@, [call |-> name, fn |-> fn])]

\* the transport invokes the handler with the context of a new request
Arrive ==
    /\ phase = "serving"
    /\ BagCardinality(inflight) < NumRequests
    /\ \E u \in XUsers, p \in Paths, m \in Methods :
          inflight' = inflight (+) SetToBag({NewRequestCtx(u, p, m)})
    /\ UNCHANGED <<phase, a, supplied, next>>

\* subject := a.getSubject(ctx)
GetSubject(x) ==
    /\ x.pc = "getSubject"
    /\ inflight' = Replace(x, [Called("getSubject", a.getSubject, x) EXCEPT
                                 !.subject = CallGetSubject(a.getSubject, x),
                                 !.pc = "getObject"])
    /\ UNCHANGED <<phase, a, supplied, next>>

\* object := a.getObject(ctx)
GetObject(x) ==
    /\ x.pc = "getObject"
    /\ inflight' = Replace(x, [Called("getObject", a.getObject, x) EXCEPT
                                 !.object = CallGetObject(a.getObject, x),
                                 !.pc = "getAction"])
    /\ UNCHANGED <<phase, a, supplied, next>>

\* action := a.getAction(ctx)
GetAction(x) ==
    /\ x.pc = "getAction"
    /\ inflight' = Replace(x, [Called("getAction", a.getAction, x) EXCEPT
                                 !.action = CallGetAction(a.getAction, x),
                                 !.pc = "enforce"])
    /\ UNCHANGED <<phase, a, supplied, next>>

\* variant: a failed query is repeated once before the handler goes on
CallEnforceRetry(x) ==
    /\ x.pc = "enforce"
    /\ \E policy \in Policies :
          LET res == Enforce(policy, x.subject, x.object, x.action)
              again == res.err /\ \A i \in 1..Len(x.calls) : x.calls[i].call # "Enforce"
          IN inflight' = Replace(x, [Called("Enforce", policy, x) EXCEPT
                                       !.ok = res.ok,
                                       !.err = res.err,
                                       !.policyAtQuery = policy,
                                       !.pc = IF again THEN "enforce" ELSE "branch"])
    /\ UNCHANGED <<phase, a, supplied, next>>

\* ok, err := a.enforcer.Enforce(subject, object, action): the enforcer
\* answers from the policy it holds at this moment, which its owner may have
\* replaced since the last query; policyAtQuery records it
CallEnforce(x) ==
    /\ x.pc = "enforce"
    /\ \E policy \in Policies :
          LET res == Enforce(policy, x.subject, x.object, x.action)
          IN inflight' = Replace(x, [Called("Enforce", policy, x) EXCEPT
                                       !.ok = res.ok,
                                       !.err = res.err,
                                       !.policyAtQuery = policy,
                                       !.pc = "branch"])
    /\ UNCHANGED <<phase, a, supplied, next>>

\* variant: ok is tested before err, so a granted triple is forwarded even
\* when the query failed
BranchesOkFirst(ok, err) ==
    IF ok THEN <<"next">>
    ELSE IF err THEN <<"error">>
    ELSE <<"forbiddenHandler">>

\* variant: no return after the forbidden handler, so next runs as well
BranchesFallThrough(ok, err) ==
    IF err THEN <<"error">>
    ELSE IF ~ok THEN <<"forbiddenHandler", "next">>
    ELSE <<"next">>

\* the statements the handler executes after Enforce has returned (ok, err):
\*   if err != nil { <error response>; return }
\*   if !ok { a.forbiddenHandler(ctx); return }
\*   next(ctx)
Branches(ok, err) ==
    IF err THEN <<"error">>
    ELSE IF ~ok THEN <<"forbiddenHandler">>
    ELSE <<"next">>

\* variant: the handler sets status and content type itself before next
TerminalStampsAllow(b, ctx) ==
    CASE b = "error" ->
           Perform("mediator", ErrorResponse, Called("error", "inline", ctx))
      [] b = "forbiddenHandler" ->
           Perform("forbiddenHandler", HandlerOps(a.forbiddenHandler, ctx),
                   Called("forbiddenHandler", a.forbiddenHandler, ctx))
      [] b = "next" ->
           Perform("next", HandlerOps(next, ctx),
                   Called("next", next,
                          Perform("mediator",
                                  <<SetStatusCode(StatusOK), SetContentType(TextPlain)>>,
                                  ctx)))

\* variant: the handler writes the default 403 itself and then calls the
\* configured forbidden handler
TerminalWritesForbidden(b, ctx) ==
    CASE b = "error" ->
           Perform("mediator", ErrorResponse, Called("error", "inline", ctx))
      [] b = "forbiddenHandler" ->
           Perform("forbiddenHandler", HandlerOps(a.forbiddenHandler, ctx),
                   Called("forbiddenHandler", a.forbiddenHandler,
                          Perform("mediator", DefaultForbiddenHandler, ctx)))
      [] b = "next" ->
           Perform("next", HandlerOps(next, ctx), Called("next", next, ctx))

\* variant: an engine error is answered by the configured forbidden handler
TerminalErrorAsForbidden(b, ctx) ==
    CASE b = "error" ->
           Perform("forbiddenHandler", HandlerOps(a.forbiddenHandler, ctx),
                   Called("error", "inline", ctx))
      [] b = "forbiddenHandler" ->
           Perform("forbiddenHandler", HandlerOps(a.forbiddenHandler, ctx),
                   Called("forbiddenHandler", a.forbiddenHandler, ctx))
      [] b = "next" ->
           Perform("next", HandlerOps(next, ctx), Called("next", next, ctx))

\* ctx after one of those statements
Terminal(b, ctx) ==
    CASE b = "error" ->
           Perform("mediator", ErrorResponse, Called("error", "inline", ctx))
      [] b = "forbiddenHandler" ->
           Perform("forbiddenHandler", HandlerOps(a.forbiddenHandler, ctx),
                   Called("forbiddenHandler", a.forbiddenHandler, ctx))
      [] b = "next" ->
           Perform("next", HandlerOps(next, ctx), Called("next", next, ctx))

RECURSIVE RunAll(_, _)
RunAll(bs, ctx) ==
    IF bs = <<>> THEN ctx ELSE RunAll(Tail(bs), Terminal(Head(bs), ctx))

\* variant: after the branch the handler puts the default forbidden handler
\* back into the Authorizer
BranchResetsHandler(x) ==
    /\ x.pc = "branch"
    /\ inflight' = Replace(x, [RunAll(Branches(x.ok, x.err), x) EXCEPT !.pc = "done"])
    /\ a' = [a EXCEPT !.forbiddenHandler = "default"]
    /\ UNCHANGED <<phase, supplied, next>>

Branch(x) ==
    /\ x.pc = "branch"
    /\ inflight' = Replace(x, [RunAll(Branches(x.ok, x.err), x) EXCEPT !.pc = "done"])
    /\ UNCHANGED <<phase, a, supplied, next>>

\* the handler has returned: the transport sends the response
Depart(x) ==
    /\ x.pc = "done"
    /\ inflight' = inflight (-) SetToBag({x})
    /\ UNCHANGED <<phase, a, supplied, next>>

Next ==
    \/ ApplyOption
    \/ NewAuthorizerReturn
    \/ Middleware
    \/ Arrive
    \/ \E x \in InFlight : GetSubject(x)
    \/ \E x \in InFlight : GetObject(x)
    \/ \E x \in InFlight : GetAction(x)
    \/ \E x \in InFlight : CallEnforce(x)
    \/ \E x \in InFlight : Branch(x)
    \/ \E x \in InFlight : Depart(x)

Spec == Init /\ [][Next]_vars

\* the shape of the state: the four slots of the Authorizer, the options
\* given to NewAuthorizer, the handler wrapped by Middleware, and the contexts
\* and locals of the handler invocations in progress
TypeOK ==
    /\ phase \in {"constructing", "constructed", "serving"}
    /\ a \in [getSubject : Getters, getObject : Getters, getAction : Getters,
              forbiddenHandler : ForbiddenHandlers]
    /\ \A slot \in Slots : supplied[slot] \in Values(slot) \cup {None}
    /\ next \in NextHandlers \cup {Unset}
    /\ IsABag(inflight)
    /\ BagCardinality(inflight) <= NumRequests
    /\ \A x \in InFlight :
          /\ x.pc \in {"getSubject", "getObject", "getAction", "enforce", "branch", "done"}
          /\ x.xUser \in XUsers /\ x.path \in Paths /\ x.method \in Methods
          /\ x.ok \in BOOLEAN /\ x.err \in BOOLEAN
          /\ x.policyAtQuery \in Policies \cup {Unset}
          /\ x.resp.status \in Nat

----------------------------------------------------------------------------
(* Properties *)

Done == {x \in InFlight : x.pc = "done"}

CallNames(x) == [i \in 1..Len(x.calls) |-> x.calls[i].call]

Count(x, name) == Cardinality({i \in 1..Len(x.calls) : x.calls[i].call = name})

Writers(x) == {x.wrote[i] : i \in 1..Len(x.wrote)}

Terminals(x) == Count(x, "next") + Count(x, "forbiddenHandler") + Count(x, "error")

\* the terminal action of a finished request
TerminalOf(x) == x.calls[Len(x.calls)].call

Allowed(x) == x.ok /\ ~x.err

Denied(x) == ~x.ok /\ ~x.err

\* C1: fail closed.  Whenever Enforce returned an error, whether ok is true
\* or false, the finished request carries status 500, the plain-text content
\* type and the body "Authorization error" (non-empty and not "Forbidden"),
\* all written by the handler itself, and neither next nor the forbidden
\* handler was invoked.
C1_FailClosed ==
    \A x \in Done :
        x.err =>
            /\ x.resp.status = 500
            /\ x.resp.ctype = "text/plain; charset=utf-8"
            /\ x.resp.body = "Authorization error"
            /\ x.resp.body # ""
            /\ x.resp.body # "Forbidden"
            /\ Writers(x) = {"mediator"}
            /\ Count(x, "next") = 0
            /\ Count(x, "forbiddenHandler") = 0

\* an error returned together with ok = TRUE has been answered
C1_Witness == \E x \in Done : x.err /\ x.ok /\ x.resp.status = 500

\* C2: when Enforce returned (true, nil), next is invoked exactly once, the
\* handler itself performs no operation on the response, and the response is
\* what next wrote on the untouched response.
C2_AllowForwards ==
    \A x \in Done :
        Allowed(x) =>
            /\ Count(x, "next") = 1
            /\ Terminals(x) = 1
            /\ Writers(x) \subseteq {"next"}
            /\ x.resp = Apply(HandlerOps(next, x), FreshResponse)

C2_Witness ==
    \E x \in Done : Allowed(x) /\ x.resp.body = "Welcome to the home page! User: alice"

\* C3: when Enforce returned (false, nil), next is never invoked, the
\* configured forbidden handler is invoked exactly once and the handler
\* itself writes nothing: with the default handler the response is 403 with
\* body "Forbidden", with the custom handler of the tests it is 418 with body
\* "nope", exactly as that handler wrote it.
C3_DenyRejects ==
    \A x \in Done :
        Denied(x) =>
            /\ Count(x, "next") = 0
            /\ Count(x, "forbiddenHandler") = 1
            /\ Writers(x) = {"forbiddenHandler"}
            /\ x.calls[Len(x.calls)].fn = a.forbiddenHandler
            /\ a.forbiddenHandler = "default" =>
                   x.resp = [status |-> 403, ctype |-> "text/plain; charset=utf-8",
                             body |-> "Forbidden"]
            /\ a.forbiddenHandler = "teapot" =>
                   x.resp = [FreshResponse EXCEPT !.status = 418, !.body = "nope"]
            /\ a.forbiddenHandler = "servererror" =>
                   x.resp = Apply(ServerErrorHandler, FreshResponse)

C3_Witness ==
    \E x \in Done : Denied(x) /\ a.forbiddenHandler = "teapot" /\ x.resp.status = 418

\* C4: a finished request has executed exactly one of the three terminal
\* actions (forward to next, forbidden handler, fixed error response), for
\* each of the four engine results; a request still in the handler has
\* executed none.
C4_ExactlyOneTerminal ==
    \A x \in InFlight :
        /\ x.pc = "done" => Terminals(x) = 1
        /\ x.pc # "done" => Terminals(x) = 0

\* two finished requests that took different terminal actions
C4_Witness ==
    \E x \in Done : \E y \in Done :
        /\ Denied(x) /\ TerminalOf(x) = "forbiddenHandler"
        /\ Allowed(y) /\ TerminalOf(y) = "next"

\* C5 as stated: in every configuration the response to an engine error
\* differs from the response to a denial.
C5_ErrorDiffersFromDenial ==
    \A x \in Done : \A y \in Done :
        (x.err /\ Denied(y)) => x.resp # y.resp

\* the forbidden handler of the configuration writes, on an untouched
\* response, what the error branch writes
WritesErrorResponse(h) ==
    Apply(HandlerOps(h, NewRequestCtx("", "/", "GET")), FreshResponse)
        = [status |-> 500, ctype |-> "text/plain; charset=utf-8",
           body |-> "Authorization error"]

\* C5 amended: the response to an engine error differs from the response to
\* a denial in every configuration whose forbidden handler does not itself
\* write status 500, the plain-text content type and the body
\* "Authorization error"; the default handler never does.
C5_ErrorDiffersUnlessMimicked ==
    /\ ~WritesErrorResponse("default")
    /\ \A x \in Done : \A y \in Done :
          (x.err /\ Denied(y) /\ ~WritesErrorResponse(a.forbiddenHandler))
              => x.resp # y.resp

C5_Witness ==
    \E x \in Done : \E y \in Done :
        x.err /\ Denied(y) /\ a.forbiddenHandler = "teapot" /\ x.resp # y.resp

\* every getter or handler a request has called is the one the Authorizer
\* holds
ObservesConfiguration ==
    \A x \in InFlight : \A i \in 1..Len(x.calls) :
        x.calls[i].call \in Slots => x.calls[i].fn = a[x.calls[i].call]

ExpectedSubject(x) ==
    IF supplied.getSubject = None
    THEN (IF x.xUser = "" THEN "anonymous" ELSE x.xUser)
    ELSE "alice"

ExpectedObject(x) == IF supplied.getObject = None THEN x.path ELSE "/data1"

ExpectedAction(x) == IF supplied.getAction = None THEN x.method ELSE "GET"

\* C7: each getter is overridden independently.  Whatever subset of the three
\* getter options was given to NewAuthorizer, each component of the triple
\* comes from the supplied getter if one was given for it and from the
\* default otherwise, and the engine is asked about exactly that triple.
C7_GettersIndependent ==
    \A x \in InFlight :
        /\ x.pc \notin {"getSubject"} => x.subject = ExpectedSubject(x)
        /\ x.pc \notin {"getSubject", "getObject"} => x.object = ExpectedObject(x)
        /\ x.pc \notin {"getSubject", "getObject", "getAction"} =>
               x.action = ExpectedAction(x)
        /\ x.pc \in {"branch", "done"} =>
               /\ x.ok = (<<ExpectedSubject(x), ExpectedObject(x), ExpectedAction(x)>>
                            \in Grants(x.policyAtQuery))
               /\ x.err = (<<ExpectedSubject(x), ExpectedObject(x), ExpectedAction(x)>>
                            \in Faulty(x.policyAtQuery))

\* only the object getter is overridden, and a request for another path by
\* a user named in the header is decided on (that user, /data1, its method)
C7_Witness ==
    /\ supplied.getSubject = None /\ supplied.getAction = None
    /\ supplied.getObject = "fixed"
    /\ \E x \in Done :
          /\ x.xUser = "alice" /\ x.path = "/" /\ x.method = "GET"
          /\ x.subject = "alice" /\ x.object = "/data1" /\ x.action = "GET"

C10_Order ==
    \A x \in InFlight :
        LET expected == <<"getSubject", "getObject", "getAction", "Enforce">>
            n == Len(x.calls)
        IN /\ n <= 5
           /\ \A i \in 1..n : i <= 4 => x.calls[i].call = expected[i]
           /\ n = 5 => x.calls[5].call \in {"next", "forbiddenHandler", "error"}
           /\ x.pc = "done" <=> n = 5
           /\ x.pc = "branch" => n = 4
           /\ Count(x, "Enforce") <= 1

\* a request whose query failed has finished after five calls
C10_Witness ==
    \E x \in Done :
        /\ x.err /\ ~x.ok
        /\ CallNames(x) =
              <<"getSubject", "getObject", "getAction", "Enforce", "error">>

====
